---- MODULE Spec2Model ----
(***************************************************************************)
(* Model of generate_task_schedule (src/pages/5_🤖 PM_Analysis.py, lines   *)
(* 185-256): the preventive-maintenance task scheduler.                    *)
(*                                                                         *)
(* A calendar date is an integer day number; day 0 is a Monday, so that    *)
(* date.weekday() is (day % 7) with Monday = 0.  A datetime is a number of *)
(* minutes since midnight of day 0.  A data-frame row is a record whose    *)
(* fields carry the column names after the renaming of line 194            *)
(* ('Duration (mins)' is Duration_mins, 'Interval (months)' is             *)
(* Interval_months, 'Task Description' is Task_Description, 'Page Number'  *)
(* is Page_Number).                                                        *)
(***************************************************************************)
EXTENDS Integers, Sequences, FiniteSets

VARIABLES
    df,                     \* argument: the task data frame (sequence of rows)
    df_columns,             \* df.columns, the column names of the argument
    start_date,             \* argument: the start date
    pc,                     \* position inside generate_task_schedule
    schedule_df,            \* sorted copy of df (lines 190-194)
    schedule_columns,       \* schedule_df.columns (line 194)
    total_work_minutes,     \* line 198
    num_workdays_needed,    \* line 200
    all_available_weekdays, \* lines 202-208
    scheduled_dates,        \* lines 210-215
    date_pos,               \* number of items date_iterator has yielded
    current_scheduled_date, \* lines 221, 234
    time_available_today,   \* lines 222, 235, 254
    task_pos,               \* index of the task the for loop of line 227 is at
    schedule,               \* line 196, the list of assignments
    result,                 \* the returned DataFrame, as its list of rows
    warned,                 \* st.warning of line 237 was emitted
    call,                   \* which invocation the caller is in
    first_result,           \* what the caller's first invocation returned
    first_warned,           \* whether the first invocation emitted the warning
    other,                  \* the frame of a second, suspended invocation
    page_df                 \* df of the page script (line 477), as load_data returned it

vars == <<df, df_columns, start_date, pc, schedule_df, schedule_columns, total_work_minutes, num_workdays_needed,
          all_available_weekdays, scheduled_dates, date_pos, current_scheduled_date,
          time_available_today, task_pos, schedule, result, warned, call,
          first_result, first_warned, other, page_df>>

locals == <<schedule_df, schedule_columns, total_work_minutes, num_workdays_needed,
            all_available_weekdays, scheduled_dates, date_pos,
            current_scheduled_date, time_available_today, task_pos, schedule>>

caller == <<call, first_result, first_warned, other, page_df>>

----------------------------------------------------------------------------
(* Bounds of the model. *)

MaxTasks == 3

MaxStart == 6

MaxFullDays == 61

MaxShortTasks == 2

(* The longest data frame handed to two invocations at once. *)
MaxPairTasks == 2

(* The longest data frame of the runs followed to their end. *)
MaxFairTasks == 2

(* The longest data frame the sidebar filters are applied to. *)
MaxFilterTasks == 3

----------------------------------------------------------------------------
(* Program constants. *)

daily_work_minutes == 300

calendar_days == 90

weekday_cap == 60

start_of_work_hours == 16

----------------------------------------------------------------------------
(* Helpers on sequences. *)

(* schedule_df['Duration_mins'].sum(), line 198: the sum of a column, the
   sequence summed half by half. *)
RECURSIVE SumDurations(_)
SumDurations(rows) ==
    IF Len(rows) = 0 THEN 0
    ELSE IF Len(rows) = 1 THEN rows[1].Duration_mins
    ELSE LET half == Len(rows) \div 2
         IN SumDurations(SubSeq(rows, 1, half))
                + SumDurations(SubSeq(rows, half + 1, Len(rows)))

(* The characters of the names, with their code points: the space and the
   punctuation of a system name, the digits from 48, the capital letters from
   65 and the small letters from 97. *)
Digits == <<"0", "1", "2", "3", "4", "5", "6", "7", "8", "9">>

CapitalLetters ==
    <<"A", "B", "C", "D", "E", "F", "G", "H", "I", "J", "K", "L", "M",
      "N", "O", "P", "Q", "R", "S", "T", "U", "V", "W", "X", "Y", "Z">>

SmallLetters ==
    <<"a", "b", "c", "d", "e", "f", "g", "h", "i", "j", "k", "l", "m",
      "n", "o", "p", "q", "r", "s", "t", "u", "v", "w", "x", "y", "z">>

CodePointTable ==
    {<<" ", 32>>, <<"-", 45>>, <<".", 46>>, <<"/", 47>>, <<"_", 95>>}
        \cup {<<Digits[i], 47 + i>> : i \in 1..10}
        \cup {<<CapitalLetters[i], 64 + i>> : i \in 1..26}
        \cup {<<SmallLetters[i], 96 + i>> : i \in 1..26}

CodePoints ==
    [c \in {p[1] : p \in CodePointTable} |->
        (CHOOSE p \in CodePointTable : p[1] = c)[2]]

(* ord(c), the code point of a character. *)
ord(c) == CodePoints[c]

(* The characters of the System values: the names load_data yields (stripped
   and upper-cased, 'NOT SPECIFIED' for a missing one, line 37) and names in
   other cases, which generate_task_schedule compares the same way. *)
Characters(s) ==
    CASE s = "COUCH"         -> <<"C", "O", "U", "C", "H">>
      [] s = "GANTRY"        -> <<"G", "A", "N", "T", "R", "Y">>
      [] s = "LINAC"         -> <<"L", "I", "N", "A", "C">>
      [] s = "NOT SPECIFIED" -> <<"N", "O", "T", " ", "S", "P", "E", "C", "I", "F", "I", "E", "D">>
      [] s = "COUCH 2"       -> <<"C", "O", "U", "C", "H", " ", "2">>
      [] s = "Couch"         -> <<"C", "o", "u", "c", "h">>
      [] s = "Gantry"        -> <<"G", "a", "n", "t", "r", "y">>
      [] s = "Apple"         -> <<"A", "p", "p", "l", "e">>
      [] s = "apple"         -> <<"a", "p", "p", "l", "e">>
      [] s = ""              -> <<>>

(* a < b as Python compares str (the order sort_values gives the System
   column, lines 190-193): at the first position where the two differ the
   character of a has the smaller code point, or a ends there and b goes on;
   a string is not less than itself. *)
StrLess(a, b) ==
    /\ a # b
    /\ LET x == Characters(a)
           y == Characters(b)
       IN \E k \in 1..(Len(x) + 1) :
          /\ k - 1 <= Len(y)
          /\ \A j \in 1..(k - 1) : x[j] = y[j]
          /\ \/ k = Len(x) + 1 /\ k <= Len(y)
             \/ k <= Len(x) /\ k <= Len(y) /\ ord(x[k]) < ord(y[k])

(* Mutant: the rows are sorted by interval first, then by system. *)
SortsAfter_IntervalFirst(a, b) ==
    \/ a.Interval_months > b.Interval_months
    \/ /\ a.Interval_months = b.Interval_months
       /\ StrLess(b.System, a.System)
    \/ /\ a.System = b.System
       /\ a.Interval_months = b.Interval_months
       /\ a.Duration_mins < b.Duration_mins

(* Mutant: the durations are sorted ascending too. *)
SortsAfter_DurationAscending(a, b) ==
    \/ StrLess(b.System, a.System)
    \/ /\ a.System = b.System
       /\ a.Interval_months > b.Interval_months
    \/ /\ a.System = b.System
       /\ a.Interval_months = b.Interval_months
       /\ a.Duration_mins > b.Duration_mins

(* row a sorts strictly after row b under by=['System', 'Interval (months)',
   'Duration (mins)'], ascending=[True, True, False]. *)
SortsAfter(a, b) ==
    \/ StrLess(b.System, a.System)
    \/ /\ a.System = b.System
       /\ a.Interval_months > b.Interval_months
    \/ /\ a.System = b.System
       /\ a.Interval_months = b.Interval_months
       /\ a.Duration_mins < b.Duration_mins

(* Row i of rows comes before row j in the sorted frame: its keys sort
   before those of row j, or the keys are equal and it comes before row j in
   rows (the multi-column sort is stable). *)
ComesBefore(rows, i, j) ==
    \/ SortsAfter(rows[j], rows[i])
    \/ /\ ~SortsAfter(rows[i], rows[j])
       /\ i < j

(* The 1-based position of row i of rows in the sorted frame. *)
SortedPosition(rows, i) ==
    1 + Cardinality({j \in 1..Len(rows) : ComesBefore(rows, j, i)})

(* df.sort_values(by=..., ascending=[True, True, False]), lines 190-193: each
   row at its position. *)
sort_values(rows) ==
    LET positions == {<<SortedPosition(rows, i), i>> : i \in 1..Len(rows)}
    IN [k \in 1..Len(rows) |-> rows[(CHOOSE p \in positions : p[1] = k)[2]]]

(* Mutant: one workday more than the integer quotient, also when the division
   is exact. *)
CeilDiv_QuotientPlusOne(a, b) == (a \div b) + 1

(* np.ceil(a / b) for b > 0, as an int. *)
CeilDiv(a, b) == -((-a) \div b)

Min(a, b) == IF a < b THEN a ELSE b

(* Mutant: the week is counted from Sunday. *)
weekday_SundayFirst(d) == (d + 1) % 7

(* date.weekday(): Monday is 0, Sunday is 6. *)
weekday(d) == d % 7

(* Mutant: Fridays are left out too. *)
IsWeekday_MondayToThursday(d) == weekday(d) < 4

(* Mutant: every date is taken, Saturdays and Sundays too. *)
IsWeekday_Always(d) == TRUE

(* Line 207: the date is a weekday. *)
IsWeekday(d) == weekday(d) < 5

(* start_date + timedelta(days=i) for the i of range(90), lines 203 and 206. *)
CalendarDates(start) == [k \in 1..calendar_days |-> start + (k - 1)]

(* The weekdays among the dates of the first n iterations, in order. *)
WeekdaysAmong(start, n) == SelectSeq(SubSeq(CalendarDates(start), 1, n), IsWeekday)

(* all_available_weekdays after the loop of lines 203-208: the weekdays of
   the range in order, none appended once there are weekday_cap of them
   (the break of lines 204-205). *)
WeekdayLoop(start) ==
    LET days == WeekdaysAmong(start, calendar_days)
    IN SubSeq(days, 1, Min(weekday_cap, Len(days)))

(* The number of iterations the loop of lines 203-208 begins, the one that
   breaks included: iteration i begins unless iteration i - 1 broke, which it
   does when the i - 1 dates before it gave weekday_cap weekdays. *)
WeekdayLoopIterations(start) ==
    Cardinality({i \in 0..(calendar_days - 1) :
        Cardinality({k \in 0..(i - 2) : IsWeekday(start + k)}) < weekday_cap})

(* a / b rounded to the nearest integer, halves to the even one, as round()
   and np.round do; b > 0. *)
RoundDiv(a, b) ==
    LET q == a \div b
        r == a % b
    IN IF 2 * r < b THEN q
       ELSE IF 2 * r > b THEN q + 1
       ELSE IF q % 2 = 0 THEN q ELSE q + 1

(* Mutant: the floats are rounded to the nearest integer. *)
linspace_int_Rounded(stop, num) ==
    [k \in 1..num |-> IF num = 1 THEN 0 ELSE RoundDiv((k - 1) * stop, num - 1)]

(* Mutant: the first num indices, as range(num). *)
linspace_int_Consecutive(stop, num) == [k \in 1..num |-> k - 1]

(* Mutant: the indices run from stop down to 0. *)
linspace_int_Descending(stop, num) ==
    [k \in 1..num |-> IF num = 1 THEN 0 ELSE stop - ((k - 1) * stop) \div (num - 1)]

(* Mutant: np.linspace(..., endpoint=False), the floats stop short of stop. *)
linspace_int_EndpointExcluded(stop, num) ==
    [k \in 1..num |-> ((k - 1) * stop) \div num]

(* np.linspace(0, stop, num, dtype=int): num evenly spaced floats from 0 to
   stop, truncated (not rounded) to integers; 0-based indices.  The floats are
   k * (stop / (num - 1)); for stop = 59 none of them but the end points is
   within 1/59 of an integer, so the truncated float is the integer quotient. *)
linspace_int(stop, num) ==
    [k \in 1..num |-> IF num = 1 THEN 0 ELSE ((k - 1) * stop) \div (num - 1)]

(* Mutant: every candidate is selected. *)
SelectDates_EveryCandidate(weekdays, needed) ==
    IF needed > 0 /\ Len(weekdays) > 0 THEN weekdays ELSE <<>>

(* Mutant: as many dates as workdays are needed, without the min of line
   211. *)
SelectDates_Uncapped(weekdays, needed) ==
    IF needed > 0 /\ Len(weekdays) > 0
    THEN LET indices == linspace_int(Len(weekdays) - 1, needed)
         IN [k \in 1..needed |-> weekdays[indices[k] + 1]]
    ELSE <<>>

(* Lines 210-215. *)
SelectDates(weekdays, needed) ==
    IF needed > 0 /\ Len(weekdays) > 0
    THEN LET days_to_pick == Min(needed, Len(weekdays))
             indices == linspace_int(Len(weekdays) - 1, days_to_pick)
         IN [k \in 1..days_to_pick |-> weekdays[indices[k] + 1]]
    ELSE <<>>

(* Mutant: the date is combined with noon. *)
Midnight_Noon(d) == d * 24 * 60 + 12 * 60

(* datetime.combine(date, datetime.min.time()), in minutes. *)
Midnight(d) == d * 24 * 60

(* Mutant: only df.empty is tested. *)
IsEmptyInput_RowsOnly(rows) == Len(rows) = 0

(* Line 187: df.empty or df['Duration (mins)'].sum() == 0 *)
IsEmptyInput(rows) == Len(rows) = 0 \/ SumDurations(rows) = 0

(* Mutant: no task is skipped. *)
IsSkipped_Never(duration) == FALSE

(* Line 229: the task is skipped. *)
IsSkipped(duration) == duration = 0

(* Mutant: every task is taken to fit on the current date. *)
DoesNotFit_Never(duration, available) == FALSE

(* Mutant: the duration is compared with the whole day, not with what is left. *)
DoesNotFit_WholeDay(duration, available) == duration > daily_work_minutes

(* Line 232: the while condition. *)
DoesNotFit(duration, available) == duration > available

(* Mutant: the offset is the time left on the date, not the time used. *)
StartOffset_TimeLeft(available) == available

(* Mutant: every task starts at the start of work. *)
StartOffset_Zero(available) == 0

(* Line 240: minutes elapsed since the start of work on the current date. *)
StartOffset(available) == daily_work_minutes - available

(* Mutant: the attribute is never found. *)
HasPageNumber_Never(task) == FALSE

(* Line 251: hasattr(task, 'Page_Number'). *)
HasPageNumber(task) == "Page_Number" \in DOMAIN task

(* Mutant: the end time is the start time plus the minutes elapsed before. *)
Assignment_FinishFromOffset(task, date, available) ==
    LET task_start_time == Midnight(date) + start_of_work_hours * 60
                           + StartOffset(available)
    IN [Date     |-> date,
        Task     |-> task.Task_Description,
        Start    |-> task_start_time,
        Finish   |-> task_start_time + StartOffset(available),
        System   |-> task.System,
        Duration |-> task.Duration_mins,
        Page     |-> IF HasPageNumber(task) THEN task.Page_Number ELSE "N/A"]

(* Lines 241-252: the row appended for a task. *)
Assignment(task, date, available) ==
    LET task_start_time == Midnight(date) + start_of_work_hours * 60
                           + StartOffset(available)
    IN [Date     |-> date,
        Task     |-> task.Task_Description,
        Start    |-> task_start_time,
        Finish   |-> task_start_time + task.Duration_mins,
        System   |-> task.System,
        Duration |-> task.Duration_mins,
        Page     |-> IF HasPageNumber(task) THEN task.Page_Number ELSE "N/A"]

(* Line 196. *)
NewSchedule == <<>>

(* Line 194: col.replace(' ', '_').replace('(', '').replace(')', '') on the
   column names a task file has. *)
RenamedColumn(col) ==
    CASE col = "Task Description"     -> "Task_Description"
      [] col = "System"               -> "System"
      [] col = "Interval (months)"    -> "Interval_months"
      [] col = "Duration (mins)"      -> "Duration_mins"
      [] col = "Page Number"          -> "Page_Number"
      [] col = "Category of PM check" -> "Category_of_PM_check"

RenamedColumns(columns) == [i \in 1..Len(columns) |-> RenamedColumn(columns[i])]

(* Mutant: the rows of the caller's frame are sorted in place. *)
CallerRows_SortedInPlace(rows) == sort_values(rows)

(* Lines 190-193: sort_values returns a new frame, the rows of df stay. *)
CallerRows(rows) == rows

(* Line 194: the names are assigned to the columns of the copy, those of df
   stay. *)
CallerColumns(columns) == columns

(* Line 238 and 256: pd.DataFrame(schedule). *)
ReturnedFrame(assignments) == assignments

----------------------------------------------------------------------------
(* Inputs. *)

(* The rows a data frame is made of (System, Interval (months), Duration
   (mins)): three systems, named as load_data yields them (line 37), both
   intervals, durations that fill a day together (100 + 200), that do not fit
   a day together (200 + 200), a zero, a negative and one longer than a
   day. *)
Row(s, i, d) == [System |-> s, Interval_months |-> i, Duration_mins |-> d]

RowValues ==
    {Row("COUCH", 1, 100), Row("COUCH", 1, 200), Row("COUCH", 1, 0),
     Row("COUCH", 1, -100), Row("COUCH", 12, 200), Row("COUCH", 12, 400),
     Row("GANTRY", 1, 100), Row("GANTRY", 12, 200), Row("LINAC", 1, 100)}

(* The 'Page Number' of the i-th row of a task file. *)
PageOf(i) == <<"12", "40", "7-3">>[(i % 3) + 1]

MakeFrame(f) ==
    [i \in DOMAIN f |->
        [Task_Description |-> i,
         System           |-> f[i].System,
         Interval_months  |-> f[i].Interval_months,
         Duration_mins    |-> f[i].Duration_mins,
         Page_Number      |-> PageOf(i)]]

(* A data frame of a task file that has no 'Page Number' column. *)
MakeFrameWithoutPage(f) ==
    [i \in DOMAIN f |->
        [Task_Description |-> i,
         System           |-> f[i].System,
         Interval_months  |-> f[i].Interval_months,
         Duration_mins    |-> f[i].Duration_mins]]

(* The column names of a task file, with and without the optional
   'Page Number'. *)
AllColumns ==
    <<"Task Description", "System", "Interval (months)", "Duration (mins)", "Page Number">>

ColumnsWithoutPage ==
    <<"Task Description", "System", "Interval (months)", "Duration (mins)">>

(* No second invocation. *)
NoFrame == [pc |-> "none"]

DataFrames == UNION {{MakeFrame(f) : f \in [1..n -> RowValues]} : n \in 0..MaxTasks}

StartDates == 0..MaxStart

(* Data frames that fill the scheduling horizon: up to MaxFullDays tasks of 300
   minutes (a whole day each), alone, after a zero-duration task, followed by
   a 100-minute task of the other system, or followed by a 120-minute task of
   the same system. *)
FullDayRow == Row("COUCH", 1, 300)

HorizonPrefixes ==
    {<<>>, <<Row("COUCH", 1, 0)>>, <<Row("GANTRY", 1, 100)>>, <<Row("COUCH", 1, 120)>>}

HorizonFrames ==
    {MakeFrame(p \o [i \in 1..k |-> FullDayRow]) :
        p \in HorizonPrefixes, k \in 0..MaxFullDays}

(* Those of them with the most tasks: the 300-minute tasks fill all the
   candidate days there are, or one more. *)
WindowEdgeFrames ==
    {MakeFrame(p \o [i \in 1..k |-> FullDayRow]) :
        p \in HorizonPrefixes, k \in (MaxFullDays - 1)..MaxFullDays}

(* Their start dates: a Monday and a Saturday. *)
HorizonStarts == {d \in StartDates : d % 7 \in {0, 5}}

(* Short data frames of any rows. *)
ShortRows == UNION {[1..n -> RowValues] : n \in 0..MaxShortTasks}

(* The rows of a task file that has the 'Category of PM check' column, named
   as load_data yields them (line 35): both systems, both intervals, a zero
   duration, durations that fill two days, each in either category. *)
CategoryRow(s, i, d, c) ==
    [System |-> s, Interval_months |-> i, Duration_mins |-> d, Category |-> c]

CategoryRowValues ==
    {CategoryRow(r.System, r.Interval_months, r.Duration_mins, c) :
        r \in {Row("COUCH", 1, 200), Row("COUCH", 1, 0), Row("COUCH", 12, 200),
               Row("GANTRY", 1, 100)},
        c \in {"MECHANICAL", "SAFETY"}}

MakeCategoryFrame(f) ==
    [i \in DOMAIN f |->
        [Task_Description     |-> i,
         System               |-> f[i].System,
         Interval_months      |-> f[i].Interval_months,
         Duration_mins        |-> f[i].Duration_mins,
         Page_Number          |-> PageOf(i),
         Category_of_PM_check |-> f[i].Category]]

ColumnsWithCategory ==
    <<"Task Description", "System", "Interval (months)", "Duration (mins)",
      "Page Number", "Category of PM check">>

CategoryFrames ==
    UNION {{MakeCategoryFrame(f) : f \in [1..n -> CategoryRowValues]} :
              n \in 0..MaxFilterTasks}

(* row['Duration (mins)'] != 0. *)
HasNonZeroDuration(row) == row.Duration_mins # 0

(* df[df['Duration (mins)'] != 0]: the rows of non-zero duration. *)
NonZeroRows(rows) == SelectSeq(rows, HasNonZeroDuration)

----------------------------------------------------------------------------
(* The state on entry of generate_task_schedule: no local is bound yet. *)
FreshFrame ==
    /\ pc' = "entry"
    /\ schedule_df' = <<>>
    /\ schedule_columns' = <<>>
    /\ total_work_minutes' = 0
    /\ num_workdays_needed' = 0
    /\ all_available_weekdays' = <<>>
    /\ scheduled_dates' = <<>>
    /\ date_pos' = 0
    /\ current_scheduled_date' = 0
    /\ time_available_today' = 0
    /\ task_pos' = 0
    /\ schedule' = <<>>
    /\ result' = <<>>
    /\ warned' = FALSE

Init ==
    /\ df \in DataFrames
    /\ df_columns = AllColumns
    /\ start_date \in StartDates
    /\ pc = "entry"
    /\ schedule_df = <<>>
    /\ schedule_columns = <<>>
    /\ total_work_minutes = 0
    /\ num_workdays_needed = 0
    /\ all_available_weekdays = <<>>
    /\ scheduled_dates = <<>>
    /\ date_pos = 0
    /\ current_scheduled_date = 0
    /\ time_available_today = 0
    /\ task_pos = 0
    /\ schedule = <<>>
    /\ result = <<>>
    /\ warned = FALSE
    /\ call = "first"
    /\ first_result = <<>>
    /\ first_warned = FALSE
    /\ other = NoFrame
    /\ page_df = df

(* The invocations on the data frames that fill the horizon, and on short data
   frames with and without the 'Page Number' column. *)
InitHorizon ==
    /\ \/ /\ df \in HorizonFrames
          /\ df_columns = AllColumns
          /\ start_date \in HorizonStarts
       \/ /\ \E f \in ShortRows : df = MakeFrame(f)
          /\ df_columns = AllColumns
          /\ start_date \in StartDates
       \/ /\ \E f \in ShortRows : df = MakeFrameWithoutPage(f)
          /\ df_columns = ColumnsWithoutPage
          /\ start_date \in StartDates
    /\ pc = "entry"
    /\ schedule_df = <<>>
    /\ schedule_columns = <<>>
    /\ total_work_minutes = 0
    /\ num_workdays_needed = 0
    /\ all_available_weekdays = <<>>
    /\ scheduled_dates = <<>>
    /\ date_pos = 0
    /\ current_scheduled_date = 0
    /\ time_available_today = 0
    /\ task_pos = 0
    /\ schedule = <<>>
    /\ result = <<>>
    /\ warned = FALSE
    /\ call = "first"
    /\ first_result = <<>>
    /\ first_warned = FALSE
    /\ other = NoFrame
    /\ page_df = df

(* Lines 187-188. *)
CheckEmpty ==
    /\ pc = "entry"
    /\ IF IsEmptyInput(df)
       THEN /\ result' = <<>>
            /\ pc' = "done"
       ELSE /\ pc' = "order"
            /\ UNCHANGED result
    /\ UNCHANGED <<df, df_columns, start_date, locals, warned, caller>>

(* Lines 190-200. *)
OrderTasks ==
    /\ pc = "order"
    /\ schedule_df' = sort_values(df)
    /\ schedule_columns' = RenamedColumns(df_columns)
    /\ df' = CallerRows(df)
    /\ df_columns' = CallerColumns(df_columns)
    /\ schedule' = NewSchedule
    /\ total_work_minutes' = SumDurations(schedule_df')
    /\ num_workdays_needed' = CeilDiv(total_work_minutes', daily_work_minutes)
    /\ pc' = "window"
    /\ UNCHANGED <<start_date, all_available_weekdays, scheduled_dates, date_pos,
                   current_scheduled_date, time_available_today, task_pos,
                   result, warned, caller>>

(* Lines 202-208. *)
BuildWindow ==
    /\ pc = "window"
    /\ all_available_weekdays' = WeekdayLoop(start_date)
    /\ pc' = "select"
    /\ UNCHANGED <<df, df_columns, start_date, schedule_df, schedule_columns, total_work_minutes, num_workdays_needed,
                   scheduled_dates, date_pos, current_scheduled_date,
                   time_available_today, task_pos, schedule, result, warned, caller>>

(* Lines 210-225. *)
PickDates ==
    /\ pc = "select"
    /\ LET dates == SelectDates(all_available_weekdays, num_workdays_needed)
       IN /\ scheduled_dates' = dates
          /\ IF dates = <<>>
             THEN /\ result' = <<>>
                  /\ pc' = "done"
                  /\ UNCHANGED <<date_pos, current_scheduled_date,
                                 time_available_today, task_pos>>
             ELSE /\ date_pos' = 1
                  /\ current_scheduled_date' = dates[1]
                  /\ time_available_today' = daily_work_minutes
                  /\ task_pos' = 1
                  /\ pc' = "place"
                  /\ UNCHANGED result
    /\ UNCHANGED <<df, df_columns, start_date, schedule_df, schedule_columns, total_work_minutes, num_workdays_needed,
                   all_available_weekdays, schedule, warned, caller>>

(* The task the for loop of line 227 is at. *)
AtTask == pc = "place" /\ task_pos <= Len(schedule_df)

(* Lines 229-230. *)
SkipTask ==
    /\ AtTask
    /\ IsSkipped(schedule_df[task_pos].Duration_mins)
    /\ task_pos' = task_pos + 1
    /\ UNCHANGED <<df, df_columns, start_date, pc, schedule_df, schedule_columns, total_work_minutes,
                   num_workdays_needed, all_available_weekdays, scheduled_dates,
                   date_pos, current_scheduled_date, time_available_today,
                   schedule, result, warned, caller>>

(* Mutant: next() yields the date it yielded before. *)
NextDatePos_Stuck(pos) == pos

(* The position of date_iterator after one more next(). *)
NextDatePos(pos) == pos + 1

(* Lines 232-235: one iteration of the while loop, next() yields a date. *)
AdvanceDate ==
    /\ AtTask
    /\ ~IsSkipped(schedule_df[task_pos].Duration_mins)
    /\ DoesNotFit(schedule_df[task_pos].Duration_mins, time_available_today)
    /\ date_pos < Len(scheduled_dates)
    /\ date_pos' = NextDatePos(date_pos)
    /\ current_scheduled_date' = scheduled_dates[NextDatePos(date_pos)]
    /\ time_available_today' = daily_work_minutes
    /\ UNCHANGED <<df, df_columns, start_date, pc, schedule_df, schedule_columns, total_work_minutes,
                   num_workdays_needed, all_available_weekdays, scheduled_dates,
                   task_pos, schedule, result, warned, caller>>

(* Mutant: the handler takes back the last assignment. *)
TruncatedReturn_WithoutLast(assignments) ==
    SubSeq(assignments, 1, Len(assignments) - 1)

(* Mutant: the handler returns an empty frame. *)
TruncatedReturn_Empty(assignments) == <<>>

(* What the StopIteration handler returns, line 238. *)
TruncatedReturn(assignments) == ReturnedFrame(assignments)

(* Lines 232-238: next() raises StopIteration. *)
Truncate ==
    /\ AtTask
    /\ ~IsSkipped(schedule_df[task_pos].Duration_mins)
    /\ DoesNotFit(schedule_df[task_pos].Duration_mins, time_available_today)
    /\ date_pos >= Len(scheduled_dates)
    /\ warned' = TRUE
    /\ result' = TruncatedReturn(schedule)
    /\ pc' = "done"
    /\ UNCHANGED <<df, df_columns, start_date, locals, caller>>

(* Lines 240-254. *)
PlaceTask ==
    /\ AtTask
    /\ ~IsSkipped(schedule_df[task_pos].Duration_mins)
    /\ ~DoesNotFit(schedule_df[task_pos].Duration_mins, time_available_today)
    /\ schedule' = Append(schedule, Assignment(schedule_df[task_pos],
                                               current_scheduled_date,
                                               time_available_today))
    /\ time_available_today' = time_available_today - schedule_df[task_pos].Duration_mins
    /\ task_pos' = task_pos + 1
    /\ UNCHANGED <<df, df_columns, start_date, pc, schedule_df, schedule_columns, total_work_minutes,
                   num_workdays_needed, all_available_weekdays, scheduled_dates,
                   date_pos, current_scheduled_date, result, warned, caller>>

(* Line 256. *)
Return ==
    /\ pc = "place"
    /\ task_pos > Len(schedule_df)
    /\ result' = ReturnedFrame(schedule)
    /\ pc' = "done"
    /\ UNCHANGED <<df, df_columns, start_date, locals, warned, caller>>

(* Line 518 again (the page script is rerun on every interaction): the caller
   invokes generate_task_schedule a second time with the same arguments. *)
CallAgain ==
    /\ pc = "done"
    /\ call = "first"
    /\ call' = "again"
    /\ first_result' = result
    /\ first_warned' = warned
    /\ FreshFrame
    /\ UNCHANGED <<df, df_columns, start_date, other, page_df>>

(* 'name' in df.columns. *)
HasColumn(columns, name) == \E c \in 1..Len(columns) : columns[c] = name

(* Line 481: the options of the interval filter, df['Interval (months)']
   .unique(). *)
intervals(rows) == {rows[i].Interval_months : i \in 1..Len(rows)}

(* Lines 484-486: the options of the system filter; there are none when the
   frame has no 'System' column. *)
systems(rows, columns) ==
    IF HasColumn(columns, "System")
    THEN {rows[i].System : i \in 1..Len(rows)}
    ELSE {}

(* Lines 489-491: the options of the category filter; there are none when the
   frame has no 'Category of PM check' column. *)
categories(rows, columns) ==
    IF HasColumn(columns, "Category of PM check")
    THEN {rows[i].Category_of_PM_check : i \in 1..Len(rows)}
    ELSE {}

(* Lines 497-500: filtered_df.  A filter with nothing selected is not
   applied; the others keep the rows whose value is among the selected
   ones. *)
filtered_df(rows, columns, selected_intervals, selected_systems, selected_categories) ==
    LET ByInterval(row) ==
            selected_intervals # {} => row.Interval_months \in selected_intervals
        BySystem(row) ==
            (selected_systems # {} /\ HasColumn(columns, "System"))
                => row.System \in selected_systems
        ByCategory(row) ==
            (selected_categories # {} /\ HasColumn(columns, "Category of PM check"))
                => row.Category_of_PM_check \in selected_categories
        IsSelected(row) == ByInterval(row) /\ BySystem(row) /\ ByCategory(row)
    IN SelectSeq(rows, IsSelected)

(* Lines 482-518 on a rerun of the page script: the user has changed the
   selection of the sidebar filters (any of the options of each multiselect,
   none of them included) and generate_task_schedule is invoked with the
   filtered frame. *)
CallFiltered ==
    /\ pc = "done"
    /\ call = "first"
    /\ \E selected_intervals \in SUBSET intervals(page_df),
          selected_systems \in SUBSET systems(page_df, df_columns),
          selected_categories \in SUBSET categories(page_df, df_columns) :
            df' = filtered_df(page_df, df_columns, selected_intervals,
                              selected_systems, selected_categories)
    /\ call' = "filtered"
    /\ first_result' = result
    /\ first_warned' = warned
    /\ FreshFrame
    /\ UNCHANGED <<df_columns, start_date, other, page_df>>

(* The local variables of an invocation (lines 194-254) and what it has
   returned and displayed, as one activation record. *)
ActiveFrame ==
    [pc |-> pc, schedule_df |-> schedule_df, schedule_columns |-> schedule_columns,
     total_work_minutes |-> total_work_minutes,
     num_workdays_needed |-> num_workdays_needed,
     all_available_weekdays |-> all_available_weekdays,
     scheduled_dates |-> scheduled_dates, date_pos |-> date_pos,
     current_scheduled_date |-> current_scheduled_date,
     time_available_today |-> time_available_today, task_pos |-> task_pos,
     schedule |-> schedule, result |-> result, warned |-> warned]

(* The activation record of an invocation that has not taken a step. *)
EntryFrame ==
    [pc |-> "entry", schedule_df |-> <<>>, schedule_columns |-> <<>>,
     total_work_minutes |-> 0, num_workdays_needed |-> 0,
     all_available_weekdays |-> <<>>, scheduled_dates |-> <<>>, date_pos |-> 0,
     current_scheduled_date |-> 0, time_available_today |-> 0, task_pos |-> 0,
     schedule |-> <<>>, result |-> <<>>, warned |-> FALSE]

(* What the invocation that resumes finds in its variables: schedule (line
   196), date_iterator, current_scheduled_date and time_available_today (lines
   220-222) and the rest are names of its own call, as it left them. *)
ResumedFrame == other

(* Line 518 in two sessions at once: two invocations with the same arguments,
   neither of which has taken a step. *)
CallConcurrently ==
    /\ pc = "done"
    /\ call = "first"
    /\ call' = "pair"
    /\ first_result' = result
    /\ first_warned' = warned
    /\ FreshFrame
    /\ other' = EntryFrame
    /\ UNCHANGED <<df, df_columns, start_date, page_df>>

(* The running invocation is suspended between two of its steps and the other
   one resumes. *)
Switch ==
    /\ call = "pair"
    /\ other' = ActiveFrame
    /\ pc' = ResumedFrame.pc
    /\ schedule_df' = ResumedFrame.schedule_df
    /\ schedule_columns' = ResumedFrame.schedule_columns
    /\ total_work_minutes' = ResumedFrame.total_work_minutes
    /\ num_workdays_needed' = ResumedFrame.num_workdays_needed
    /\ all_available_weekdays' = ResumedFrame.all_available_weekdays
    /\ scheduled_dates' = ResumedFrame.scheduled_dates
    /\ date_pos' = ResumedFrame.date_pos
    /\ current_scheduled_date' = ResumedFrame.current_scheduled_date
    /\ time_available_today' = ResumedFrame.time_available_today
    /\ task_pos' = ResumedFrame.task_pos
    /\ schedule' = ResumedFrame.schedule
    /\ result' = ResumedFrame.result
    /\ warned' = ResumedFrame.warned
    /\ UNCHANGED <<df, df_columns, start_date, call, first_result, first_warned, page_df>>

Next ==
    \/ CheckEmpty
    \/ OrderTasks
    \/ BuildWindow
    \/ PickDates
    \/ SkipTask
    \/ AdvanceDate
    \/ Truncate
    \/ PlaceTask
    \/ Return
    \/ CallAgain

Spec == Init /\ [][Next]_vars

SpecHorizon == InitHorizon /\ [][Next]_vars

(* The page script run on a task file and run again after a change of the
   sidebar filters (lines 477-518): the first run has every option selected
   (the defaults of lines 482, 487 and 492), so its filtered_df has all the
   rows of df.  The task files have the 'Category of PM check' column: on a
   file without it the charts of lines 508-510 raise KeyError (lines 60, 72
   and 82 read the column unguarded) and the run ends before line 518. *)
InitFilter ==
    /\ df \in CategoryFrames
    /\ df_columns = ColumnsWithCategory
    /\ start_date = 0
    /\ pc = "entry"
    /\ schedule_df = <<>>
    /\ schedule_columns = <<>>
    /\ total_work_minutes = 0
    /\ num_workdays_needed = 0
    /\ all_available_weekdays = <<>>
    /\ scheduled_dates = <<>>
    /\ date_pos = 0
    /\ current_scheduled_date = 0
    /\ time_available_today = 0
    /\ task_pos = 0
    /\ schedule = <<>>
    /\ result = <<>>
    /\ warned = FALSE
    /\ call = "first"
    /\ first_result = <<>>
    /\ first_warned = FALSE
    /\ other = NoFrame
    /\ page_df = df

NextFilter ==
    \/ Next
    \/ CallFiltered

SpecFilter == InitFilter /\ [][NextFilter]_vars

(* The invocations on the data frames that fill or overfill the whole window
   of candidate days, every one followed to its return. *)
InitWindowEdge ==
    /\ df \in WindowEdgeFrames
    /\ df_columns = AllColumns
    /\ start_date \in HorizonStarts
    /\ pc = "entry"
    /\ schedule_df = <<>>
    /\ schedule_columns = <<>>
    /\ total_work_minutes = 0
    /\ num_workdays_needed = 0
    /\ all_available_weekdays = <<>>
    /\ scheduled_dates = <<>>
    /\ date_pos = 0
    /\ current_scheduled_date = 0
    /\ time_available_today = 0
    /\ task_pos = 0
    /\ schedule = <<>>
    /\ result = <<>>
    /\ warned = FALSE
    /\ call = "first"
    /\ first_result = <<>>
    /\ first_warned = FALSE
    /\ other = NoFrame
    /\ page_df = df

SpecWindowEdge == InitWindowEdge /\ [][Next]_vars /\ WF_vars(Next)

(* The invocations of two sessions on the same data frame. *)
InitPair ==
    /\ \E n \in 0..MaxPairTasks : \E f \in [1..n -> RowValues] : df = MakeFrame(f)
    /\ df_columns = AllColumns
    /\ start_date \in StartDates
    /\ pc = "entry"
    /\ schedule_df = <<>>
    /\ schedule_columns = <<>>
    /\ total_work_minutes = 0
    /\ num_workdays_needed = 0
    /\ all_available_weekdays = <<>>
    /\ scheduled_dates = <<>>
    /\ date_pos = 0
    /\ current_scheduled_date = 0
    /\ time_available_today = 0
    /\ task_pos = 0
    /\ schedule = <<>>
    /\ result = <<>>
    /\ warned = FALSE
    /\ call = "first"
    /\ first_result = <<>>
    /\ first_warned = FALSE
    /\ other = NoFrame
    /\ page_df = df

NextPair ==
    \/ Next
    \/ CallConcurrently
    \/ Switch

SpecPair == InitPair /\ [][NextPair]_vars

(* The invocations whose every run is followed to its end. *)
InitFair ==
    /\ \E n \in 0..MaxFairTasks : \E f \in [1..n -> RowValues] : df = MakeFrame(f)
    /\ df_columns = AllColumns
    /\ start_date \in StartDates
    /\ pc = "entry"
    /\ schedule_df = <<>>
    /\ schedule_columns = <<>>
    /\ total_work_minutes = 0
    /\ num_workdays_needed = 0
    /\ all_available_weekdays = <<>>
    /\ scheduled_dates = <<>>
    /\ date_pos = 0
    /\ current_scheduled_date = 0
    /\ time_available_today = 0
    /\ task_pos = 0
    /\ schedule = <<>>
    /\ result = <<>>
    /\ warned = FALSE
    /\ call = "first"
    /\ first_result = <<>>
    /\ first_warned = FALSE
    /\ other = NoFrame
    /\ page_df = df

(* The interpreter runs the statement the invocation is at: a step that can be
   taken is taken. *)
SpecFair == InitFair /\ [][Next]_vars /\ WF_vars(Next)

----------------------------------------------------------------------------
(* Vocabulary of the properties. *)

RECURSIVE SumOnDate(_, _, _)
(* Sum of the durations of the first n assignments of s that are on date d. *)
SumOnDate(s, d, n) ==
    IF n = 0 THEN 0
    ELSE (IF s[n].Date = d THEN s[n].Duration ELSE 0) + SumOnDate(s, d, n - 1)

CountOnDate(s, d) == Cardinality({i \in 1..Len(s) : s[i].Date = d})

TaskIds(rows) == [i \in 1..Len(rows) |-> rows[i].Task_Description]

PlacedIds(s) == [i \in 1..Len(s) |-> s[i].Task]

Later(a, b) == IF a > b THEN a ELSE b

Earlier(a, b) == IF a < b THEN a ELSE b

(* The half-open intervals [Start, Finish) of two assignments share an instant. *)
Intersect(a, b) == Later(a.Start, b.Start) < Earlier(a.Finish, b.Finish)

NoNegativePlaced(s) == \A i \in 1..Len(s) : s[i].Duration >= 0

WorkStart(d) == d * 1440 + 16 * 60

(* The placer is at a task that does not fit and the cursor has no further date. *)
Exhausted ==
    /\ pc = "place"
    /\ task_pos <= Len(schedule_df)
    /\ schedule_df[task_pos].Duration_mins # 0
    /\ schedule_df[task_pos].Duration_mins > time_available_today
    /\ date_pos = Len(scheduled_dates)

----------------------------------------------------------------------------
(* C1: on every date of the schedule (while it is built and as returned) the
   durations of the assignments of that date sum to at most 300 minutes, unless
   one assignment alone is longer than 300 minutes and is the only one of its
   date. *)
CapacityRespected(s) ==
    \A i \in 1..Len(s) :
        \/ SumOnDate(s, s[i].Date, Len(s)) <= 300
        \/ /\ \E j \in 1..Len(s) : s[j].Date = s[i].Date /\ s[j].Duration > 300
           /\ CountOnDate(s, s[i].Date) = 1

C1_CapacityInvariant == CapacityRespected(schedule) /\ CapacityRespected(result)

(* A returned schedule with a date filled to exactly 300 minutes by two tasks. *)
C1_Witness ==
    /\ pc = "done"
    /\ \E i, j \in 1..Len(result) :
          /\ i < j
          /\ result[i].Date = result[j].Date
          /\ result[i].Duration > 0
          /\ result[j].Duration > 0
          /\ SumOnDate(result, result[i].Date, Len(result)) = 300

(* C2 as stated: no two distinct assignments of the returned schedule that share
   a date have intersecting [Start, Finish) intervals. *)
C2_NoOverlap_Original ==
    pc = "done" =>
        \A i, j \in 1..Len(result) :
            (i # j /\ result[i].Date = result[j].Date)
                => ~Intersect(result[i], result[j])

(* C2 amended: when no assignment of the schedule has a negative duration, no two
   distinct assignments that share a date have intersecting intervals. *)
C2_NoOverlap ==
    \A i, j \in 1..Len(schedule) :
        (/\ i # j
         /\ schedule[i].Date = schedule[j].Date
         /\ NoNegativePlaced(schedule))
            => ~Intersect(schedule[i], schedule[j])

(* Two assignments back to back on one date. *)
C2_Witness ==
    /\ pc = "done"
    /\ NoNegativePlaced(result)
    /\ \E i, j \in 1..Len(result) :
          /\ i # j
          /\ result[i].Date = result[j].Date
          /\ result[i].Finish = result[j].Start
          /\ result[i].Start < result[i].Finish
          /\ result[j].Start < result[j].Finish

(* C3 as stated, on data frames without negative durations: a task longer than
   300 minutes that the placer reached (the cursor then being on a selected
   date) is in the returned schedule, alone on its date. *)
C3_OversizedTaskPlaced ==
    (pc = "done" /\ \A r \in 1..Len(df) : df[r].Duration_mins >= 0) =>
        \A i \in 1..Len(schedule_df) :
            (i <= task_pos /\ schedule_df[i].Duration_mins > 300)
                => \E k \in 1..Len(result) :
                      /\ result[k].Task = schedule_df[i].Task_Description
                      /\ CountOnDate(result, result[k].Date) = 1

(* C4: when the current task does not fit and the cursor has no further selected
   date, the next step ends the invocation: the warning is emitted, and what is
   returned is the list of assignments appended so far, which are the non-zero
   tasks before the current one, in order; the current task and the later ones
   are not in it. *)
C4_ExhaustionReturnsPartial ==
    [][Exhausted =>
          /\ pc' = "done"
          /\ warned'
          /\ result' = schedule
          /\ PlacedIds(result') = TaskIds(NonZeroRows(SubSeq(schedule_df, 1, task_pos - 1)))
          /\ \A i \in task_pos..Len(schedule_df) :
                \A k \in 1..Len(result') :
                    result'[k].Task # schedule_df[i].Task_Description]_vars

(* A truncated run that returned an assignment and left out a later task. *)
C4_Witness ==
    /\ pc = "done"
    /\ warned
    /\ Len(result) >= 1
    /\ task_pos < Len(schedule_df)

(* C5 as stated, on data frames whose durations are all between 0 and 300
   minutes: the truncation warning is emitted only if the non-zero durations
   total more than 300 minutes times the number of candidate weekdays. *)
C5_TruncationOnlyWhenWindowTooSmall ==
    (warned /\ \A r \in 1..Len(df) : df[r].Duration_mins \in 0..300) =>
        SumDurations(NonZeroRows(df)) > 300 * Len(all_available_weekdays)

(* C6: no assignment has duration 0, and when the filters leave the data frame
   without its zero-duration rows and nothing else, the invocation on the
   filtered frame returns what the invocation on the whole data frame
   returned, with the same warning. *)
C6_ZeroDurationExcluded ==
    /\ \A k \in 1..Len(schedule) : schedule[k].Duration # 0
    /\ \A k \in 1..Len(result) : result[k].Duration # 0
    /\ (pc = "done" /\ call = "filtered" /\ df = NonZeroRows(page_df))
          => (result = first_result /\ warned = first_warned)

(* The second invocation, on the frame a filter has taken the zero-duration
   row from, returned a non-empty schedule. *)
C6_Witness ==
    /\ pc = "done"
    /\ call = "filtered"
    /\ df = NonZeroRows(page_df)
    /\ Len(page_df) = Len(df) + 1
    /\ Len(result) >= 2
    /\ Len(schedule_df) >= 2

(* C7: when the data frame has no rows or its durations sum to zero, the
   invocation goes from its entry straight to its return, the returned frame is
   empty and no warning is emitted. *)
C7_EmptyInput ==
    (Len(df) = 0 \/ SumDurations(df) = 0)
        => /\ pc \in {"entry", "done"}
           /\ result = <<>>
           /\ ~warned

(* A returned invocation on a non-empty data frame whose durations sum to 0. *)
C7_Witness ==
    /\ pc = "done"
    /\ Len(df) >= 2
    /\ SumDurations(df) = 0
    /\ \E i \in 1..Len(df) : df[i].Duration_mins > 0

(* Determinism of two invocations on the same data frame and start date is
   not stated as a formula: every step of an invocation is a function of
   df, start_date and the locals, which FreshFrame binds anew, so that the
   result of CallAgain equals first_result in any model of this shape,
   whatever the steps compute. *)

(* Start and end of every assignment: 16:00 of its date plus the durations
   placed earlier on that date; the end is the start plus its duration. *)
TimingExact(s) ==
    \A i \in 1..Len(s) :
        /\ s[i].Start = WorkStart(s[i].Date) + SumOnDate(s, s[i].Date, i - 1)
        /\ s[i].Finish = s[i].Start + s[i].Duration

(* i is before j on the same date, with no assignment of that date between. *)
NextOnDate(s, i, j) ==
    /\ i < j
    /\ s[i].Date = s[j].Date
    /\ \A k \in (i + 1)..(j - 1) : s[k].Date # s[i].Date

StartsIncrease(s) ==
    \A i, j \in 1..Len(s) :
        (i < j /\ s[i].Date = s[j].Date) => s[i].Start < s[j].Start

Contiguous(s) ==
    \A i, j \in 1..Len(s) : NextOnDate(s, i, j) => s[j].Start = s[i].Finish

(* C9 as stated: exact timing, same-day start times increasing, each assignment
   starting where the previous one of its date ended. *)
C9_WithinDayTiming_Original ==
    pc = "done" =>
        /\ TimingExact(result)
        /\ StartsIncrease(result)
        /\ Contiguous(result)

(* C9 amended: exact timing and each assignment starting where the previous one
   of its date ended, always; same-day start times increasing when no assignment
   of the schedule has a negative duration. *)
C9_WithinDayTiming ==
    /\ TimingExact(schedule)
    /\ Contiguous(schedule)
    /\ NoNegativePlaced(schedule) => StartsIncrease(schedule)
    /\ pc = "done" => result \in {schedule, <<>>}

(* A date with two assignments, the second starting after 16:00. *)
C9_Witness ==
    /\ pc = "done"
    /\ NoNegativePlaced(result)
    /\ \E i, j \in 1..Len(result) :
          /\ NextOnDate(result, i, j)
          /\ result[i].Start = WorkStart(result[i].Date)
          /\ result[j].Start = result[i].Start + result[i].Duration
          /\ result[j].Start > result[i].Start

DatesInOrder(s) ==
    \A i, j \in 1..Len(s) : i < j => s[i].Date <= s[j].Date

StartsInOrder(s) ==
    \A i, j \in 1..Len(s) :
        (i < j /\ s[i].Date = s[j].Date) => s[i].Start <= s[j].Start

(* C10 as stated: the returned list is ordered by date and, on equal dates, by
   start time. *)
C10_Chronological_Original ==
    pc = "done" => (DatesInOrder(result) /\ StartsInOrder(result))

(* C10 amended: the list is ordered by date, no assignment being on a date
   earlier than that of an assignment before it, and the current date is never
   earlier than the date of an assignment already made; on equal dates it is
   ordered by start time when no assignment has a negative duration. *)
C10_Chronological ==
    /\ DatesInOrder(schedule)
    /\ DatesInOrder(result)
    /\ \A i \in 1..Len(schedule) :
          pc = "place" => schedule[i].Date <= current_scheduled_date
    /\ NoNegativePlaced(schedule) => StartsInOrder(schedule)

(* A returned schedule over two dates, with two assignments on one of them. *)
C10_Witness ==
    /\ pc = "done"
    /\ NoNegativePlaced(result)
    /\ \E i, j, k \in 1..Len(result) :
          /\ i < j /\ j < k
          /\ result[i].Date < result[k].Date
          /\ \/ result[i].Date = result[j].Date /\ result[i].Start < result[j].Start
             \/ result[j].Date = result[k].Date /\ result[j].Start < result[k].Start

----------------------------------------------------------------------------
(* C11: assignments of one system are contiguous: no assignment of another
   system stands between two assignments of the same system, in the list being
   built and in the returned one. *)
GroupedBySystem(s) ==
    \A i, j, k \in 1..Len(s) :
        (i < j /\ j < k /\ s[i].System = s[k].System) => s[j].System = s[i].System

C11_Grouping == GroupedBySystem(schedule) /\ GroupedBySystem(result)

(* Three tasks given in the order GANTRY, COUCH, GANTRY, all of them placed. *)
C11_Witness ==
    /\ pc = "done"
    /\ Len(df) = 3
    /\ Len(result) = 3
    /\ df[1].System = "GANTRY" /\ df[2].System = "COUCH" /\ df[3].System = "GANTRY"
    /\ result[1].System = "COUCH"
    /\ result[3].System = "GANTRY"

(* The key (System, Interval, -Duration) of row a is lexicographically smaller
   than that of row b. *)
KeyLess(a, b) ==
    \/ StrLess(a.System, b.System)
    \/ a.System = b.System /\ a.Interval_months < b.Interval_months
    \/ /\ a.System = b.System
       /\ a.Interval_months = b.Interval_months
       /\ (0 - a.Duration_mins) < (0 - b.Duration_mins)

SortedPermutation(sorted, rows) ==
    /\ Len(sorted) = Len(rows)
    /\ {sorted[i] : i \in 1..Len(sorted)} = {rows[i] : i \in 1..Len(rows)}
    /\ \A i, j \in 1..Len(sorted) : KeyLess(sorted[i], sorted[j]) => i < j

(* C13: once the tasks are ordered, the order is a permutation of the input
   rows in which a row of smaller key (System, Interval, -Duration) stands
   before one of larger key; the tasks are taken for placement in that order
   (the assignments made are the non-zero tasks before the current one); a
   data frame without rows gives no order at all. *)
C13_TaskOrdering ==
    /\ (pc \in {"window", "select", "place"} \/ (pc = "done" /\ schedule_df # <<>>))
          => SortedPermutation(schedule_df, df)
    /\ pc = "place"
          => PlacedIds(schedule)
                = TaskIds(NonZeroRows(SubSeq(schedule_df, 1, task_pos - 1)))
    /\ Len(df) = 0 => schedule_df = <<>>

(* An order that differs from the input in system, interval and duration:
   three rows given in exactly the reverse of their order. *)
C13_Witness ==
    /\ pc = "done"
    /\ Len(df) = 3
    /\ schedule_df = <<df[3], df[2], df[1]>>
    /\ df[3].System = df[2].System
    /\ df[3].Interval_months = df[2].Interval_months
    /\ df[3].Duration_mins > df[2].Duration_mins
    /\ df[1].System = df[2].System
    /\ df[1].Interval_months > df[2].Interval_months

(* C14: no step of an invocation changes the caller's data frame: its rows,
   their order and values, and its column names stay as they are, whether the
   invocation ends normally, truncated or with an empty result. *)
C14_InputUnchanged ==
    [][pc # "done" => (df' = df /\ df_columns' = df_columns)]_vars

(* A truncated invocation whose ordered copy differs from the data frame in
   the order of the rows and in the column names. *)
C14_Witness ==
    /\ pc = "done"
    /\ warned
    /\ Len(schedule_df) = Len(df)
    /\ schedule_df # df
    /\ schedule_columns # df_columns
    /\ df_columns = AllColumns

(* The first weekday at or after day d. *)
FirstWeekdayFrom(d) ==
    IF d % 7 = 5 THEN d + 2 ELSE IF d % 7 = 6 THEN d + 1 ELSE d

(* C16: the first candidate day is the first weekday at or after start_date
   (the following Monday for a Saturday or a Sunday, start_date itself
   otherwise), and the first assignment of a non-empty schedule is on it. *)
C16_FirstCandidateDay ==
    /\ pc \in {"select", "place"} => all_available_weekdays # <<>>
    /\ all_available_weekdays # <<>>
          => all_available_weekdays[1] = FirstWeekdayFrom(start_date)
    /\ schedule # <<>> => schedule[1].Date = FirstWeekdayFrom(start_date)
    /\ result # <<>> => result[1].Date = FirstWeekdayFrom(start_date)

(* A schedule for a Saturday start whose first assignment is on the Monday. *)
C16_Witness ==
    /\ pc = "done"
    /\ start_date % 7 = 5
    /\ result # <<>>
    /\ result[1].Date = start_date + 2
    /\ result[1].Date % 7 = 0

----------------------------------------------------------------------------
(* The first n candidates. *)
FirstCandidates(n) == SubSeq(all_available_weekdays, 1, n)

(* The candidate at 0-based index k. *)
Candidate(k) == all_available_weekdays[k + 1]

(* The dates have been selected, and some date was. *)
DatesSelected == pc \in {"place", "done"} /\ scheduled_dates # <<>>

(* C12: when 2 <= workdays_needed < number of candidate days, the selected
   dates are not the first workdays_needed candidates: the first selected date
   is the first candidate and the last selected date is the last candidate. *)
C12_Spread ==
    (/\ DatesSelected
     /\ 2 <= num_workdays_needed
     /\ num_workdays_needed < Len(all_available_weekdays))
        => /\ Len(scheduled_dates) = num_workdays_needed
           /\ scheduled_dates # FirstCandidates(num_workdays_needed)
           /\ scheduled_dates[1] = all_available_weekdays[1]
           /\ scheduled_dates[Len(scheduled_dates)]
                 = all_available_weekdays[Len(all_available_weekdays)]

(* 59 of the 60 candidates are selected: all but one, and still the last one. *)
C12_Witness ==
    /\ pc = "done"
    /\ num_workdays_needed = 59
    /\ Len(all_available_weekdays) = 60
    /\ scheduled_dates[59] = all_available_weekdays[60]
    /\ scheduled_dates[58] = all_available_weekdays[58]

(* The 'Page Number' an assignment of task t has to carry. *)
CarriedPage(t) ==
    IF \E c \in 1..Len(df_columns) : df_columns[c] = "Page Number"
    THEN t.Page_Number
    ELSE "N/A"

Carries(a, t) ==
    /\ a.Task = t.Task_Description
    /\ a.System = t.System
    /\ a.Duration = t.Duration_mins
    /\ a.Page = CarriedPage(t)

(* C15: every assignment of the returned schedule carries the description,
   system, duration and page number of exactly one row of the data frame
   ('N/A' for the page exactly when the frame has no 'Page Number' column), no
   row is carried by two assignments, and there are at most as many assignments
   as rows of non-zero duration. *)
C15_FieldsCarried ==
    pc = "done" =>
        /\ \A k \in 1..Len(result) :
              Cardinality({i \in 1..Len(df) : Carries(result[k], df[i])}) = 1
        /\ \A i \in 1..Len(df) :
              Cardinality({k \in 1..Len(result) : Carries(result[k], df[i])}) <= 1
        /\ Len(result) <= Len(NonZeroRows(df))

(* A returned schedule of two assignments with their page numbers. *)
C15_Witness ==
    /\ pc = "done"
    /\ df_columns = AllColumns
    /\ Len(df) = 2
    /\ Len(result) = 2
    /\ result[1].Task = 2
    /\ result[1].Page = df[2].Page_Number
    /\ result[2].Page = df[1].Page_Number
    /\ result[1].Page # result[2].Page

(* A returned schedule of a frame without 'Page Number' column. *)
C15_WitnessWithoutPage ==
    /\ pc = "done"
    /\ df_columns = ColumnsWithoutPage
    /\ Len(result) = 2
    /\ result[1].Page = "N/A"

(* The number of dates selected: min(workdays_needed, number of candidates). *)
DaysPicked ==
    IF num_workdays_needed < Len(all_available_weekdays)
    THEN num_workdays_needed
    ELSE Len(all_available_weekdays)

(* C20 as stated: with n >= 2 dates selected out of L candidates, the i-th
   selected date (i in 0..n-1) is the candidate at index
   round(i * (L-1) / (n-1)); with n = 1 it is the candidate at index 0. *)
C20_SelectionFormula_Original ==
    DatesSelected =>
        /\ Len(scheduled_dates) = DaysPicked
        /\ \A i \in 0..(DaysPicked - 1) :
              scheduled_dates[i + 1] =
                  IF DaysPicked = 1 THEN Candidate(0)
                  ELSE Candidate(RoundDiv(i * (Len(all_available_weekdays) - 1),
                                          DaysPicked - 1))

(* C20 amended: the index is floor(i * (L-1) / (n-1)), the interpolation
   truncated to an integer, not rounded to the nearest one. *)
C20_SelectionFormula ==
    DatesSelected =>
        /\ Len(scheduled_dates) = DaysPicked
        /\ \A i \in 0..(DaysPicked - 1) :
              scheduled_dates[i + 1] =
                  IF DaysPicked = 1 THEN Candidate(0)
                  ELSE Candidate((i * (Len(all_available_weekdays) - 1))
                                     \div (DaysPicked - 1))

(* Four dates selected out of 60: indices 0, 19, 39, 59, where rounding
   59/3 = 19.67 and 118/3 = 39.33 would give 20 and 39. *)
C20_Witness ==
    /\ pc = "done"
    /\ num_workdays_needed = 4
    /\ Len(all_available_weekdays) = 60
    /\ scheduled_dates = <<Candidate(0), Candidate(19), Candidate(39), Candidate(59)>>

----------------------------------------------------------------------------
(* Reentrancy. *)

(* That two interleaved invocations each return what one returns alone is
   not stated as a formula: the names an invocation assigns (lines 190-254)
   are locals of its call, which Switch keeps apart as whole activation
   records (ResumedFrame), so that the two results agree with first_result
   by the definition of Switch, whatever the steps compute. *)

----------------------------------------------------------------------------
(* Termination. *)

(* A step of the placement loop either moves the date cursor to the next
   selected date or moves on to the next task, never both and never back. *)
PlacementProgress ==
    (pc = "place" /\ pc' = "place") =>
        \/ date_pos' = date_pos + 1 /\ task_pos' = task_pos
        \/ date_pos' = date_pos /\ task_pos' = task_pos + 1

(* The placement loop has ended with every task handled, or with the
   warning. *)
PlacementEnded ==
    \/ task_pos = Len(schedule_df) + 1 /\ ~warned
    \/ task_pos <= Len(schedule_df) /\ warned

(* C18: every invocation returns.  The enumeration of candidate days runs at
   most 90 iterations; the date cursor only moves forward, one selected date
   at a time, and never past the last one; the task position only moves
   forward, one task at a time; and an invocation that reached the placement
   loop returns with every task handled or with the truncation warning. *)
C18_Termination ==
    /\ [](pc = "window" => WeekdayLoopIterations(start_date) <= 90)
    /\ [](date_pos <= Len(scheduled_dates) /\ task_pos <= Len(schedule_df) + 1)
    /\ [][PlacementProgress]_vars
    /\ []((pc = "done" /\ scheduled_dates # <<>>) => PlacementEnded)
    /\ (pc = "entry") ~> (pc = "done")

(* An invocation has returned by truncation after it placed a task and moved
   the cursor through all of two or more selected dates. *)
C18_Witness ==
    /\ pc = "done"
    /\ warned
    /\ Len(scheduled_dates) >= 2
    /\ date_pos = Len(scheduled_dates)
    /\ Len(schedule) >= 1
    /\ task_pos <= Len(schedule_df)

----------------------------------------------------------------------------
(* Date selection: subsequence and boundary cases. *)

(* The 1-based positions of date d in the candidate list. *)
CandidateIndices(d) ==
    {k \in 1..Len(all_available_weekdays) : all_available_weekdays[k] = d}

(* The selected dates are candidates at strictly increasing positions. *)
IncreasingSubsequence ==
    /\ \A k \in 1..Len(scheduled_dates) : CandidateIndices(scheduled_dates[k]) # {}
    /\ \A k \in 1..(Len(scheduled_dates) - 1) :
          \A a \in CandidateIndices(scheduled_dates[k]) :
              \A b \in CandidateIndices(scheduled_dates[k + 1]) : a < b

(* C21: the selected dates are min(workdays_needed, number of candidates)
   candidates taken at strictly increasing positions of the candidate list, so
   no candidate is selected twice, whether workdays_needed is below, equal to
   or above the number of candidates. *)
C21_IncreasingSubsequence ==
    DatesSelected =>
        /\ Len(scheduled_dates) = DaysPicked
        /\ IncreasingSubsequence
        /\ Cardinality({scheduled_dates[k] : k \in 1..Len(scheduled_dates)})
               = Len(scheduled_dates)

(* More workdays are needed than there are candidates, and 60 dates are
   selected. *)
C21_Witness ==
    /\ pc = "done"
    /\ num_workdays_needed > Len(all_available_weekdays)
    /\ Len(all_available_weekdays) = 60
    /\ Len(scheduled_dates) = 60
    /\ scheduled_dates[60] = all_available_weekdays[60]

(* C22: when one workday is needed only the first candidate is selected, and
   when at least as many workdays are needed as there are candidates every
   candidate is selected, in order. *)
C22_SelectionBoundaries ==
    DatesSelected =>
        /\ num_workdays_needed = 1 => scheduled_dates = <<all_available_weekdays[1]>>
        /\ num_workdays_needed >= Len(all_available_weekdays)
               => scheduled_dates = all_available_weekdays

(* Exactly as many workdays are needed as there are candidates, and all 60 are
   selected. *)
C22_Witness ==
    /\ pc = "done"
    /\ num_workdays_needed = 60
    /\ Len(all_available_weekdays) = 60
    /\ scheduled_dates = all_available_weekdays

(* One workday is needed and the first candidate alone is selected. *)
C22_WitnessOneDay ==
    /\ pc = "done"
    /\ num_workdays_needed = 1
    /\ scheduled_dates = <<all_available_weekdays[1]>>
    /\ Len(result) >= 1

----------------------------------------------------------------------------
(* The candidate days. *)

(* Day 0 is a Monday: the date is a Saturday or a Sunday. *)
IsWeekend(d) == d % 7 \in {5, 6}

(* C23: when the enumeration has ended, the candidate list holds only
   Monday-to-Friday dates, at most 60 of them, all within the 90 calendar
   days from start_date on, in strictly increasing order and with no weekday
   left out before the first or between two of them; the enumeration examines
   no date after the one that gave the 60th weekday, and never more than 90
   dates. *)
C23_CalendarWindow ==
    pc = "select" =>
        LET w == all_available_weekdays
        IN /\ Len(w) <= 60
           /\ \A k \in 1..Len(w) :
                 /\ ~IsWeekend(w[k])
                 /\ start_date <= w[k]
                 /\ w[k] <= start_date + 89
           /\ \A k \in 1..(Len(w) - 1) :
                 /\ w[k] < w[k + 1]
                 /\ \A d \in (w[k] + 1)..(w[k + 1] - 1) : IsWeekend(d)
           /\ Len(w) >= 1 => \A d \in start_date..(w[1] - 1) : IsWeekend(d)
           /\ IF Len(w) = 60
              THEN WeekdayLoopIterations(start_date)
                       = Min(90, (w[60] - start_date + 1) + 1)
              ELSE WeekdayLoopIterations(start_date) = 90

(* The candidate list of a Saturday start: it begins on the Monday after and
   its 60th weekday is the Friday twelve weeks later, the 84th date examined. *)
C23_Witness ==
    /\ pc = "select"
    /\ start_date % 7 = 5
    /\ Len(all_available_weekdays) = 60
    /\ all_available_weekdays[1] = start_date + 2
    /\ all_available_weekdays[6] = start_date + 9
    /\ all_available_weekdays[60] = start_date + 83

----------------------------------------------------------------------------
(* Scenarios. *)

(* The data frame holds three tasks of 200 minutes, all of one system. *)
ThreeTasksOf200 ==
    /\ Len(df) = 3
    /\ \A i \in 1..3 : df[i].Duration_mins = 200 /\ df[i].System = df[1].System

(* C24: an invocation on three 200-minute tasks of one system needs 2
   workdays, selects exactly the first and the last candidate, places the
   first two tasks of the order on one date each, leaves the third out and
   warns.  In general an invocation that warned has used up its selected dates
   and returns without the task that did not fit on the last of them and
   without any later task, whether or not candidates were left unselected. *)
C24_ThreeTasksOf200 ==
    /\ (pc = "done" /\ ThreeTasksOf200) =>
           /\ num_workdays_needed = 2
           /\ scheduled_dates = <<all_available_weekdays[1],
                                  all_available_weekdays[Len(all_available_weekdays)]>>
           /\ Len(result) = 2
           /\ result[1].Task = schedule_df[1].Task_Description
           /\ result[1].Date = scheduled_dates[1]
           /\ result[2].Task = schedule_df[2].Task_Description
           /\ result[2].Date = scheduled_dates[2]
           /\ warned
    /\ (pc = "done" /\ warned) =>
           /\ date_pos = Len(scheduled_dates)
           /\ task_pos <= Len(schedule_df)
           /\ schedule_df[task_pos].Duration_mins > time_available_today
           /\ \A k \in 1..Len(result) : \A i \in task_pos..Len(schedule_df) :
                 result[k].Task # schedule_df[i].Task_Description

(* The run on three 200-minute tasks has returned two assignments and warned,
   with 58 candidates left unselected. *)
C24_Witness ==
    /\ pc = "done"
    /\ ThreeTasksOf200
    /\ warned
    /\ Len(result) = 2
    /\ Len(scheduled_dates) = 2
    /\ Len(all_available_weekdays) = 60
    /\ task_pos = 3

----------------------------------------------------------------------------
(* Insufficient window. *)

(* The durations total more than 300 minutes times the number of candidate
   days. *)
WindowTooSmall ==
    /\ pc \in {"select", "place"}
    /\ total_work_minutes > 300 * Len(all_available_weekdays)

(* Some task of non-zero duration has no assignment in s. *)
SomeTaskAbsent(s) ==
    \E i \in 1..Len(df) :
        /\ df[i].Duration_mins # 0
        /\ \A k \in 1..Len(s) : s[k].Task # df[i].Task_Description

(* C25: when the durations total more than 300 minutes times the number of
   candidate days, every candidate day is selected, and the invocation
   eventually returns with the date cursor on the last candidate, the warning
   emitted and a task of non-zero duration absent from the result. *)
C25_InsufficientWindow ==
    /\ [](pc = "place" /\ WindowTooSmall => scheduled_dates = all_available_weekdays)
    /\ WindowTooSmall ~>
           (/\ pc = "done"
            /\ warned
            /\ date_pos = Len(all_available_weekdays)
            /\ SomeTaskAbsent(result))

(* 61 workdays are needed for 60 candidates: the run has filled all 60 dates
   and has returned with the warning. *)
C25_Witness ==
    /\ pc = "done"
    /\ total_work_minutes > 300 * Len(all_available_weekdays)
    /\ Len(all_available_weekdays) = 60
    /\ scheduled_dates = all_available_weekdays
    /\ warned
    /\ Len(result) = 60
    /\ result[60].Date = all_available_weekdays[60]
    /\ SomeTaskAbsent(result)

----------------------------------------------------------------------------
(* Single-day case. *)

(* No duration is negative and the durations total between 1 and 300
   minutes. *)
FitsOneDay ==
    /\ \A i \in 1..Len(df) : df[i].Duration_mins >= 0
    /\ SumDurations(df) >= 1
    /\ SumDurations(df) <= 300

(* C26: when no duration is negative and the durations total between 1 and
   300 minutes, the invocation returns, without warning, the tasks of non-zero
   duration in their order, all on the first candidate day, the first of them
   starting at 16:00; a single task of 120 minutes and a Monday start give one
   assignment on that Monday from 16:00 to 18:00. *)
C26_SingleDay ==
    (pc = "done" /\ FitsOneDay) =>
        /\ ~warned
        /\ PlacedIds(result) = TaskIds(NonZeroRows(schedule_df))
        /\ \A k \in 1..Len(result) : result[k].Date = all_available_weekdays[1]
        /\ result[1].Start = all_available_weekdays[1] * 1440 + 16 * 60
        /\ (Len(df) = 1 /\ df[1].Duration_mins = 120 /\ start_date % 7 = 0) =>
               /\ Len(result) = 1
               /\ result[1].Date = start_date
               /\ result[1].Start = start_date * 1440 + 16 * 60
               /\ result[1].Finish = start_date * 1440 + 18 * 60

(* The run on one 120-minute task with a Monday start has returned. *)
C26_Witness ==
    /\ pc = "done"
    /\ Len(df) = 1
    /\ df[1].Duration_mins = 120
    /\ start_date % 7 = 0
    /\ Len(result) = 1
    /\ result[1].Finish - result[1].Start = 120

(* The run on a task of zero duration and a task of 100 minutes has returned
   the one assignment. *)
C26_WitnessWithZero ==
    /\ pc = "done"
    /\ FitsOneDay
    /\ Len(df) = 2
    /\ Len(result) = 1
    /\ ~warned

----------------------------------------------------------------------------
(* The candidate list is always full. *)

(* The enumeration of candidate days has run. *)
WindowBuilt == pc \in {"select", "place"} \/ (pc = "done" /\ num_workdays_needed # 0)

(* C27: whatever the day of the week of start_date, the candidate list has
   exactly 60 weekdays, the 60th being among the first 84 dates examined, so
   the enumeration never runs to its 90th date; and whenever a workday is
   needed a date is selected. *)
C27_SixtyWeekdays ==
    WindowBuilt =>
        /\ Len(all_available_weekdays) = 60
        /\ all_available_weekdays[60] - start_date + 1 <= 84
        /\ (pc \in {"place", "done"} /\ num_workdays_needed > 0) => scheduled_dates # <<>>

(* A Saturday start, the latest the 60th weekday can come: it is the 84th date
   examined, and the dates have been selected. *)
C27_Witness ==
    /\ pc = "place"
    /\ start_date % 7 = 5
    /\ Len(all_available_weekdays) = 60
    /\ all_available_weekdays[60] - start_date + 1 = 84
    /\ scheduled_dates # <<>>

----------------------------------------------------------------------------
(* Work window. *)

(* Every assignment of s starts at or after 16:00 and ends at or before 21:00
   of its own date. *)
InsideWorkWindow(s) ==
    \A k \in 1..Len(s) :
        /\ s[k].Start >= s[k].Date * 1440 + 16 * 60
        /\ s[k].Finish <= s[k].Date * 1440 + 21 * 60
        /\ s[k].Start <= s[k].Finish

(* C28: when no task of the data frame has a negative duration, every
   assignment, of the schedule being built and of the one returned, lies
   within 16:00 and 21:00 of its own date. *)
C28_WorkWindow ==
    (\A i \in 1..Len(df) : df[i].Duration_mins >= 0) =>
        /\ InsideWorkWindow(schedule)
        /\ InsideWorkWindow(result)

(* A returned schedule, of a data frame without negative durations, with an
   assignment that starts after 16:00 and ends at 21:00 sharp. *)
C28_Witness ==
    /\ pc = "done"
    /\ \A i \in 1..Len(df) : df[i].Duration_mins >= 0
    /\ \E k \in 1..Len(result) :
          /\ result[k].Start > result[k].Date * 1440 + 16 * 60
          /\ result[k].Finish = result[k].Date * 1440 + 21 * 60

----------------------------------------------------------------------------
(* Prefix property. *)

(* The tasks of non-zero duration, in the order of the sorted frame. *)
OrderedTasks == TaskIds(NonZeroRows(schedule_df))

(* The tasks of non-zero duration that come before the task the placement
   loop is at. *)
TasksBeforeCursor == TaskIds(NonZeroRows(SubSeq(schedule_df, 1, task_pos - 1)))

(* Some task after the one the loop stopped at is of non-zero duration and
   would fit in the time left on the last date. *)
LaterTaskWouldFit ==
    \E i \in (task_pos + 1)..Len(schedule_df) :
        /\ schedule_df[i].Duration_mins # 0
        /\ schedule_df[i].Duration_mins <= time_available_today

(* C29: the tasks of the returned schedule are, in order, a prefix of the
   ordered tasks of non-zero duration: all of them when no warning was
   emitted, and exactly those before the task that did not fit when it was,
   none of the later ones. *)
C29_Prefix ==
    pc = "done" =>
        /\ \E n \in 0..Len(OrderedTasks) : PlacedIds(result) = SubSeq(OrderedTasks, 1, n)
        /\ scheduled_dates # <<>> =>
               /\ PlacedIds(result) = TasksBeforeCursor
               /\ ~warned => PlacedIds(result) = OrderedTasks
               /\ warned => Len(result) < Len(OrderedTasks)

(* A truncated run that returned one assignment and left out a later task of
   non-zero duration that would have fit on the last date. *)
C29_Witness ==
    /\ pc = "done"
    /\ warned
    /\ Len(result) >= 1
    /\ LaterTaskWouldFit

----------------------------------------------------------------------------
(* Full use of the selected dates. *)

(* The dates that have an assignment in s. *)
DatesUsed(s) == {s[k].Date : k \in 1..Len(s)}

(* No duration is negative, no more workdays are needed than there are
   candidates, and the invocation has returned without the warning. *)
ReturnedInFull ==
    /\ pc = "done"
    /\ ~warned
    /\ \A i \in 1..Len(df) : df[i].Duration_mins >= 0
    /\ num_workdays_needed <= Len(all_available_weekdays)

(* C30: when no duration is negative, no more workdays are needed than there
   are candidates and no warning was emitted, the returned schedule has
   assignments on exactly workdays_needed distinct dates, which are the
   selected dates, every one of them; and when two or more workdays are needed
   its first assignment is on the first candidate day and its last on the last
   candidate day. *)
C30_FullUse ==
    ReturnedInFull =>
        /\ Cardinality(DatesUsed(result)) = num_workdays_needed
        /\ DatesUsed(result) = {scheduled_dates[k] : k \in 1..Len(scheduled_dates)}
        /\ num_workdays_needed >= 2 =>
               /\ result[1].Date = all_available_weekdays[1]
               /\ result[Len(result)].Date
                      = all_available_weekdays[Len(all_available_weekdays)]

(* 45 workdays needed: the schedule has assignments on 45 dates, from the
   first to the last of the 60 candidates. *)
C30_Witness ==
    /\ ReturnedInFull
    /\ num_workdays_needed = 45
    /\ Cardinality(DatesUsed(result)) = 45
    /\ result[1].Date = all_available_weekdays[1]
    /\ result[Len(result)].Date = all_available_weekdays[60]

====
